---------------------------- MODULE Spec2Model ----------------------------
(***************************************************************************)
(* NameTimePeriod (src/src/main.rs): the anchor-date parser, the Easter    *)
(* computus, the weekday-of-month resolvers and the period matcher, with   *)
(* the driver that loads a period list and prints the matcher's result.    *)
(*                                                                         *)
(* Text (anchor expressions) is a sequence of one-character strings, so    *)
(* that trimming, lowercasing, the regular expression and the date format  *)
(* are computed character by character.  Period names are TLA+ strings.    *)
(* An Option<T> is a sequence of length 0 (None) or 1 (Some).              *)
(***************************************************************************)
EXTENDS Integers, Sequences, FiniteSets, TLC

VARIABLES pc, periods, current_date, output, year, month, weekday, nth, resolved

vars == <<pc, periods, current_date, output, year, month, weekday, nth, resolved>>

None == <<>>

Some(x) == <<x>>

(***************************************************************************)
(* Bounds of the model.                                                    *)
(***************************************************************************)
MaxPeriods == 2

MaxDays == 2

EasterYearMargin == 20

NthYears == 4

MaxNth == 5

HugeDays == 200000000

(***************************************************************************)
(* Rust integer division and remainder truncate toward zero.               *)
(***************************************************************************)
Abs(x) == IF x < 0 THEN -x ELSE x

RustDiv(x, y) == IF (x < 0) = (y < 0) THEN Abs(x) \div Abs(y) ELSE -(Abs(x) \div Abs(y))

RustRem(x, y) == x - y * RustDiv(x, y)

(***************************************************************************)
(* chrono::NaiveDate: a proleptic Gregorian calendar date.                 *)
(***************************************************************************)
NaiveDateYears == -262143..262142

IsLeapYear(y) == y % 4 = 0 /\ (y % 100 # 0 \/ y % 400 = 0)

DaysInMonth(y, m) ==
    IF m = 2 THEN (IF IsLeapYear(y) THEN 29 ELSE 28)
    ELSE IF m \in {4, 6, 9, 11} THEN 30 ELSE 31

Date(y, m, d) == [year |-> y, month |-> m, day |-> d]

from_ymd_opt(y, m, d) ==
    IF /\ y \in NaiveDateYears
       /\ m \in 1..12
       /\ d >= 1
       /\ d <= DaysInMonth(y, m)
    THEN Some(Date(y, m, d))
    ELSE None

\* Days since 1970-01-01 of the day d of month m of year y, with y and m
\* counted from March (mp = 0 for March; January and February belong to y - 1).
DaysFromCivil(y, mp, d) ==
    (y \div 400) * 146097
    + (y % 400) * 365 + (y % 400) \div 4 - (y % 400) \div 100
    + (153 * mp + 2) \div 5 + d - 1
    - 719468

DayNumber(date) ==
    DaysFromCivil(IF date.month <= 2 THEN date.year - 1 ELSE date.year,
                  (date.month + 9) % 12, date.day)

CivilOfMonth(y, doy, mp) ==
    [year  |-> IF mp < 10 THEN y ELSE y + 1,
     month |-> IF mp < 10 THEN mp + 3 ELSE mp - 9,
     day   |-> doy - (153 * mp + 2) \div 5 + 1]

CivilOfDay(y, doy) == CivilOfMonth(y, doy, (5 * doy + 2) \div 153)

CivilOfYear(era, doe, yoe) ==
    CivilOfDay(yoe + era * 400, doe - (365 * yoe + yoe \div 4 - yoe \div 100))

CivilOfEra(era, doe) ==
    CivilOfYear(era, doe, (doe - doe \div 1460 + doe \div 36524 - doe \div 146096) \div 365)

\* The date that lies z days after 1970-01-01.
DateOfDayNumber(z) == CivilOfEra((z + 719468) \div 146097, (z + 719468) % 146097)

Weekdays == <<"Mon", "Tue", "Wed", "Thu", "Fri", "Sat", "Sun">>

\* Datelike::weekday: 1970-01-01 was a Thursday.
WeekdayOf(date) == Weekdays[((DayNumber(date) + 3) % 7) + 1]

MIN_DATE == [year |-> -262143, month |-> 1, day |-> 1]

MAX_DATE == [year |-> 262142, month |-> 12, day |-> 31]

DateInRange(z) ==
    IF z < DayNumber(MIN_DATE) \/ z > DayNumber(MAX_DATE)
    THEN None
    ELSE Some(DateOfDayNumber(z))

\* NaiveDate::checked_add_signed(Duration::days(n)).
checked_add_days(date, n) == DateInRange(DayNumber(date) + n)

(***************************************************************************)
(* calculate_easter: the Meeus/Jones/Butcher steps on i32.  The result of  *)
(* from_ymd_opt is unwrapped with expect, so None is a panic.              *)
(***************************************************************************)
\* A slip: the correction m is left out of the month and the day.
easter_ymd_without_m(y) ==
    LET a == RustRem(y, 19)
        b == RustDiv(y, 100)
        c == RustRem(y, 100)
        d == RustDiv(b, 4)
        e == RustRem(b, 4)
        f == RustDiv(b + 8, 25)
        g == RustDiv(b - f + 1, 3)
        h == RustRem(19 * a + b - d - g + 15, 30)
        i == RustDiv(c, 4)
        k == RustRem(c, 4)
        l == RustRem(32 + 2 * e + 2 * i - h - k, 7)
        mon == RustDiv(h + l + 114, 31)
        day == RustRem(h + l + 114, 31) + 1
    IN  from_ymd_opt(y, mon, day)

easter_ymd(y) ==
    LET a == RustRem(y, 19)
        b == RustDiv(y, 100)
        c == RustRem(y, 100)
        d == RustDiv(b, 4)
        e == RustRem(b, 4)
        f == RustDiv(b + 8, 25)
        g == RustDiv(b - f + 1, 3)
        h == RustRem(19 * a + b - d - g + 15, 30)
        i == RustDiv(c, 4)
        k == RustRem(c, 4)
        l == RustRem(32 + 2 * e + 2 * i - h - k, 7)
        m == RustDiv(a + 11 * h + 22 * l, 451)
        mon == RustDiv(h + l - 7 * m + 114, 31)
        day == RustRem(h + l - 7 * m + 114, 31) + 1
    IN  from_ymd_opt(y, mon, day)

calculate_easter_panics(y) == easter_ymd(y) = None

calculate_easter(y) == Head(easter_ymd(y))

(***************************************************************************)
(* The weekday-of-month resolvers.                                         *)
(***************************************************************************)
\* days.filter_map(|day| from_ymd_opt(year, month, day)).
ValidDates(y, m, days) ==
    [i \in 1..Len(days) |-> Date(y, m, days[i])]

\* (..).filter_map(from_ymd_opt).filter(weekday == wd), in the order of days.
WeekdayDates(y, m, wd, days) ==
    SelectSeq(ValidDates(y, m, SelectSeq(days, LAMBDA d : from_ymd_opt(y, m, d) # None)),
              LAMBDA date : WeekdayOf(date) = wd)

\* Iterator::nth(k as usize): a negative k wraps to an index beyond any
\* iterator of at most 31 items.
IteratorNth(items, k) ==
    IF k < 0 \/ k >= Len(items) THEN None ELSE Some(items[k + 1])

\* A slip: .nth(nth) in place of .nth(nth - 1).
nth_weekday_of_month_zero_based(y, m, wd, n) ==
    IteratorNth(WeekdayDates(y, m, wd, [i \in 1..31 |-> i]), n)

nth_weekday_of_month(y, m, wd, n) ==
    IteratorNth(WeekdayDates(y, m, wd, [i \in 1..31 |-> i]), n - 1)

last_weekday_of_month(y, m, wd) ==
    IteratorNth(WeekdayDates(y, m, wd, [i \in 1..31 |-> 32 - i]), 0)

(***************************************************************************)
(* Text: str::trim, str::to_lowercase, the regex classes \s and \w, and    *)
(* the decimal rendering of an i32 (format!("{}", year)).                  *)
(***************************************************************************)
UPPER == <<"A", "B", "C", "D", "E", "F", "G", "H", "I", "J", "K", "L", "M", "N", "O", "P", "Q", "R", "S", "T", "U", "V", "W", "X", "Y", "Z">>

LOWER == <<"a", "b", "c", "d", "e", "f", "g", "h", "i", "j", "k", "l", "m", "n", "o", "p", "q", "r", "s", "t", "u", "v", "w", "x", "y", "z">>

DIGITS == <<"0", "1", "2", "3", "4", "5", "6", "7", "8", "9">>

IndexOf(seq, c) == IF \E i \in 1..Len(seq) : seq[i] = c
                   THEN CHOOSE i \in 1..Len(seq) : seq[i] = c
                   ELSE 0

IsSpace(c) == c \in {" ", "\t", "\n", "\r"}

DigitChars == {DIGITS[i] : i \in 1..10}

UpperChars == {UPPER[i] : i \in 1..26}

WordChars == UpperChars \cup {LOWER[i] : i \in 1..26} \cup DigitChars \cup {"_"}

IsDigit(c) == c \in DigitChars

IsWordChar(c) == c \in WordChars

LowerChar(c) == IF c \in UpperChars THEN LOWER[IndexOf(UPPER, c)] ELSE c

to_lowercase(s) == [i \in 1..Len(s) |-> LowerChar(s[i])]

RECURSIVE trim_start(_)
trim_start(s) == IF s # <<>> /\ IsSpace(Head(s)) THEN trim_start(Tail(s)) ELSE s

RECURSIVE trim_end(_)
trim_end(s) == IF s # <<>> /\ IsSpace(s[Len(s)]) THEN trim_end(SubSeq(s, 1, Len(s) - 1)) ELSE s

trim(s) == trim_end(trim_start(s))

RECURSIVE NatDigits(_)
NatDigits(n) == IF n < 10 THEN <<DIGITS[n + 1]>> ELSE NatDigits(n \div 10) \o <<DIGITS[(n % 10) + 1]>>

IntToText(n) == IF n < 0 THEN <<"-">> \o NatDigits(-n) ELSE NatDigits(n)

\* The index of the first character at or after i that is not whitespace.
RECURSIVE SkipSpace(_, _)
SkipSpace(s, i) == IF i <= Len(s) /\ IsSpace(s[i]) THEN SkipSpace(s, i + 1) ELSE i

\* The index of the first character at or after i that is not a word character.
RECURSIVE SkipWord(_, _)
SkipWord(s, i) == IF i <= Len(s) /\ IsWordChar(s[i]) THEN SkipWord(s, i + 1) ELSE i

\* Whether lit (lowercase) occurs in s at index i, ignoring case.
LiteralAt(s, i, lit) ==
    /\ i + Len(lit) - 1 <= Len(s)
    /\ \A k \in 1..Len(lit) : LowerChar(s[i + k - 1]) = lit[k]

(***************************************************************************)
(* RELATIVE_DATE_REGEX: (?i)the\s+(\w+)\s+(\w+)\s+of\s+(\w+), unanchored.  *)
(* The pattern is a sequence of items: a literal, or a run (one or more)   *)
(* of whitespace or of word characters, captured or not.  \s and \w are    *)
(* disjoint, so from a start index the greedy runs are the only way to     *)
(* match; captures() takes the leftmost start that matches.                *)
(***************************************************************************)
Lit(text) == [kind |-> "lit", text |-> text, capture |-> FALSE]

Spaces == [kind |-> "space", text |-> <<>>, capture |-> FALSE]

Word == [kind |-> "word", text |-> <<>>, capture |-> TRUE]

RELATIVE_DATE_REGEX ==
    <<Lit(<<"t", "h", "e">>), Spaces, Word, Spaces, Word, Spaces, Lit(<<"o", "f">>), Spaces, Word>>

SkipRun(s, i, kind) == IF kind = "space" THEN SkipSpace(s, i) ELSE SkipWord(s, i)

RECURSIVE MatchItems(_, _, _, _)
\* The run s[i..e-1] for the first item, then the rest of the pattern.
MatchRun(s, i, e, items, caps) ==
    IF e = i THEN None
    ELSE MatchItems(s, e, Tail(items),
                    IF Head(items).capture THEN Append(caps, SubSeq(s, i, e - 1)) ELSE caps)

\* The captures of the pattern items matched at index i, or None.
MatchItems(s, i, items, caps) ==
    IF items = <<>> THEN Some(caps)
    ELSE IF Head(items).kind = "lit"
         THEN IF LiteralAt(s, i, Head(items).text)
              THEN MatchItems(s, i + Len(Head(items).text), Tail(items), caps)
              ELSE None
    ELSE MatchRun(s, i, SkipRun(s, i, Head(items).kind), items, caps)

RECURSIVE RegexFrom(_, _)
RegexOrNext(s, i, here) == IF here # None THEN here ELSE RegexFrom(s, i + 1)

RegexFrom(s, i) ==
    IF i > Len(s) THEN None
    ELSE RegexOrNext(s, i, MatchItems(s, i, RELATIVE_DATE_REGEX, <<>>))

RELATIVE_DATE_REGEX_captures(s) == RegexFrom(s, 1)

(***************************************************************************)
(* Month names as chrono reads them (Month::from_str and %B): the three    *)
(* letter name, optionally followed by the rest of the full name, in any   *)
(* case.                                                                   *)
(***************************************************************************)
LONG_MONTHS ==
    << <<"j", "a", "n", "u", "a", "r", "y">>,
       <<"f", "e", "b", "r", "u", "a", "r", "y">>,
       <<"m", "a", "r", "c", "h">>,
       <<"a", "p", "r", "i", "l">>,
       <<"m", "a", "y">>,
       <<"j", "u", "n", "e">>,
       <<"j", "u", "l", "y">>,
       <<"a", "u", "g", "u", "s", "t">>,
       <<"s", "e", "p", "t", "e", "m", "b", "e", "r">>,
       <<"o", "c", "t", "o", "b", "e", "r">>,
       <<"n", "o", "v", "e", "m", "b", "e", "r">>,
       <<"d", "e", "c", "e", "m", "b", "e", "r">> >>

\* The month whose three-letter name is at index i, or 0.
ShortMonthAt(s, i) ==
    IF \E m \in 1..12 : LiteralAt(s, i, SubSeq(LONG_MONTHS[m], 1, 3))
    THEN CHOOSE m \in 1..12 : LiteralAt(s, i, SubSeq(LONG_MONTHS[m], 1, 3))
    ELSE 0

\* The rest of the full name is consumed when it follows.
LongMonthAt(s, i, m, rest) ==
    IF LiteralAt(s, i + 3, rest)
    THEN [month |-> m, next |-> i + 3 + Len(rest)]
    ELSE [month |-> m, next |-> i + 3]

MonthAt(s, i, m) ==
    IF m = 0 THEN [month |-> 0, next |-> i]
    ELSE LongMonthAt(s, i, m, SubSeq(LONG_MONTHS[m], 4, Len(LONG_MONTHS[m])))

\* scan::short_or_long_month0 at index i: [month, next], month = 0 on failure.
ScanMonth(s, i) == MonthAt(s, i, ShortMonthAt(s, i))

WholeMonth(s, r) == IF r.month # 0 /\ r.next = Len(s) + 1 THEN Some(r.month) ELSE None

\* chrono::Month::from_str(..).ok().number_from_month(): the whole text is a month name.
month_from_str(s) == WholeMonth(s, ScanMonth(s, 1))

\* scan::number: the index after at most max digits starting at i.
RECURSIVE ScanDigits(_, _, _)
ScanDigits(s, i, max) ==
    IF max > 0 /\ i <= Len(s) /\ IsDigit(s[i]) THEN ScanDigits(s, i + 1, max - 1) ELSE i

RECURSIVE DigitsValue(_)
DigitsValue(s) ==
    IF s = <<>> THEN 0
    ELSE 10 * DigitsValue(SubSeq(s, 1, Len(s) - 1)) + (IndexOf(DIGITS, s[Len(s)]) - 1)

(***************************************************************************)
(* NaiveDate::parse_from_str(text, "%B %d %Y").ok(): a month name, a day   *)
(* of at most two digits and a year (at most four digits unless signed),   *)
(* each numeric item and each space of the format skipping whitespace,     *)
(* with nothing left over.                                                 *)
(***************************************************************************)
\* %Y read s[y1..y2-1]; the text must end there.
ParsedYear(s, m, d, negative, y1, y2) ==
    IF y2 > y1 /\ y2 = Len(s) + 1
    THEN from_ymd_opt((IF negative THEN -1 ELSE 1) * DigitsValue(SubSeq(s, y1, y2 - 1)), m, d)
    ELSE None

\* %Y at index y0: a sign lifts the limit of four digits.
ParseYear(s, m, d, y0) ==
    IF y0 <= Len(s) /\ s[y0] \in {"-", "+"}
    THEN ParsedYear(s, m, d, s[y0] = "-", y0 + 1, ScanDigits(s, y0 + 1, Len(s)))
    ELSE ParsedYear(s, m, d, FALSE, y0, ScanDigits(s, y0, 4))

\* %d read s[d0..d1-1].
ParsedDay(s, m, d0, d1) ==
    IF d1 = d0 THEN None
    ELSE ParseYear(s, m, DigitsValue(SubSeq(s, d0, d1 - 1)), SkipSpace(s, d1))

ParseDay(s, m, d0) == ParsedDay(s, m, d0, ScanDigits(s, d0, 2))

ParsedMonth(s, mon) ==
    IF mon.month = 0 THEN None ELSE ParseDay(s, mon.month, SkipSpace(s, mon.next))

parse_from_str_BdY(s) == ParsedMonth(s, ScanMonth(s, 1))

(***************************************************************************)
(* parse_relative_date and parse_flexible_date.                            *)
(***************************************************************************)
ORDINALS ==
    << <<"f", "i", "r", "s", "t">>,
       <<"s", "e", "c", "o", "n", "d">>,
       <<"t", "h", "i", "r", "d">>,
       <<"f", "o", "u", "r", "t", "h">>,
       <<"f", "i", "f", "t", "h">> >>

WEEKDAY_NAMES ==
    << <<"m", "o", "n", "d", "a", "y">>,
       <<"t", "u", "e", "s", "d", "a", "y">>,
       <<"w", "e", "d", "n", "e", "s", "d", "a", "y">>,
       <<"t", "h", "u", "r", "s", "d", "a", "y">>,
       <<"f", "r", "i", "d", "a", "y">>,
       <<"s", "a", "t", "u", "r", "d", "a", "y">>,
       <<"s", "u", "n", "d", "a", "y">> >>

\* The three matches of parse_relative_date: n and wd are 0, m is None, when
\* the word is not in the table; each failure returns None.
RelativeDate(n, wd, m, y) ==
    IF n = 0 THEN None
    ELSE IF wd = 0 THEN None
    ELSE IF m = None THEN None
    ELSE nth_weekday_of_month(y, Head(m), Weekdays[wd], n)

RelativeDateOf(cap, y) ==
    IF cap = None THEN None
    ELSE RelativeDate(IndexOf(ORDINALS, to_lowercase(Head(cap)[1])),
                      IndexOf(WEEKDAY_NAMES, to_lowercase(Head(cap)[2])),
                      month_from_str(Head(cap)[3]), y)

parse_relative_date(date_str, y) ==
    RelativeDateOf(RELATIVE_DATE_REGEX_captures(date_str), y)

\* parse_relative_date(..).or_else(|| NaiveDate::parse_from_str(..).ok()).
RelativeOrFixed(rel, date_str, y) ==
    IF rel # None THEN rel
    ELSE parse_from_str_BdY(date_str \o <<" ">> \o IntToText(y))

\* match lower.as_str() { .. }.
MatchLower(lower, date_str, y) ==
    IF lower = <<"e", "a", "s", "t", "e", "r">> THEN Some(calculate_easter(y))
    ELSE IF lower = <<"t", "h", "a", "n", "k", "s", "g", "i", "v", "i", "n", "g">>
         THEN nth_weekday_of_month(y, 11, "Thu", 4)
    ELSE IF lower = <<"l", "a", "b", "o", "r", "d", "a", "y">>
         THEN nth_weekday_of_month(y, 9, "Mon", 1)
    ELSE IF lower = <<"m", "e", "m", "o", "r", "i", "a", "l", "d", "a", "y">>
         THEN last_weekday_of_month(y, 5, "Mon")
    ELSE IF lower = <<"m", "l", "k", "d", "a", "y">>
         THEN nth_weekday_of_month(y, 1, "Mon", 3)
    ELSE RelativeOrFixed(parse_relative_date(date_str, y), date_str, y)

parse_flexible_date_panics(date_str, y) ==
    /\ to_lowercase(trim(date_str)) = <<"e", "a", "s", "t", "e", "r">>
    /\ calculate_easter_panics(y)

\* A slip: the named holidays are compared without lowercasing.
parse_flexible_date_case_sensitive(date_str, y) == MatchLower(trim(date_str), date_str, y)

parse_flexible_date(date_str, y) == MatchLower(to_lowercase(trim(date_str)), date_str, y)

(***************************************************************************)
(* The period matcher.  A period list entry is <<name, TimePeriod>>.       *)
(***************************************************************************)
TimePeriod(date, days_before, days_after) ==
    [date |-> date, days_before |-> days_before, days_after |-> days_after]

\* base_date - Duration::days(days_before) or base_date + Duration::days(days_after)
\* leaves the range of NaiveDate.
WindowOverflows(tp, base) ==
    /\ base # None
    /\ \/ checked_add_days(Head(base), -tp.days_before) = None
       \/ checked_add_days(Head(base), tp.days_after) = None

\* The filter_map closure panics when the Easter date is invalid or when the
\* window leaves the range of NaiveDate.
period_match_panics(entry, date) ==
    \/ parse_flexible_date_panics(entry[2].date, date.year)
    \/ WindowOverflows(entry[2], parse_flexible_date(entry[2].date, date.year))

\* (start..=end).contains(&current_date).then_some(name)
ContainsThenSome(start, end, date, name) ==
    IF DayNumber(start) <= DayNumber(date) /\ DayNumber(date) <= DayNumber(end)
    THEN Some(name)
    ELSE None

\* A slip: the half-open range start..end in place of start..=end.
ContainsThenSomeExclusive(start, end, date, name) ==
    IF DayNumber(start) <= DayNumber(date) /\ DayNumber(date) < DayNumber(end)
    THEN Some(name)
    ELSE None

\* The closure after the ? on the resolved anchor.
WindowMatch(name, tp, base, date) ==
    IF base = None THEN None
    ELSE ContainsThenSome(Head(checked_add_days(Head(base), -tp.days_before)),
                          Head(checked_add_days(Head(base), tp.days_after)),
                          date, name)

WindowMatchExclusive(name, tp, base, date) ==
    IF base = None THEN None
    ELSE ContainsThenSomeExclusive(Head(checked_add_days(Head(base), -tp.days_before)),
                                   Head(checked_add_days(Head(base), tp.days_after)),
                                   date, name)

period_match_exclusive_end(entry, date) ==
    WindowMatchExclusive(entry[1], entry[2], parse_flexible_date(entry[2].date, date.year), date)

\* A change: the anchor is also resolved in the years before and after the query's.
period_match_adjacent_years(entry, date) ==
    IF \E y \in {date.year - 1, date.year, date.year + 1} :
          WindowMatch(entry[1], entry[2], parse_flexible_date(entry[2].date, y), date) # None
    THEN Some(entry[1])
    ELSE None

\* The filter_map closure: Some(name) when the window contains the date.
period_match(entry, date) ==
    WindowMatch(entry[1], entry[2], parse_flexible_date(entry[2].date, date.year), date)

RECURSIVE filter_map(_, _)
filter_map(ps, date) ==
    IF ps = <<>> THEN <<>>
    ELSE period_match(Head(ps), date) \o filter_map(Tail(ps), date)

RECURSIVE join(_, _)
join(names, sep) ==
    IF names = <<>> THEN ""
    ELSE IF Len(names) = 1 THEN names[1]
    ELSE names[1] \o sep \o join(Tail(names), sep)

\* if matches.is_empty() { "Default" } else { matches.join(" ") }
DefaultOrJoin(matches) == IF matches = <<>> THEN "Default" ELSE join(matches, " ")

get_current_period_panics(ps, date) ==
    \E i \in 1..Len(ps) : period_match_panics(ps[i], date)

\* A change: the first match alone is returned.
DefaultOrFirst(matches) == IF matches = <<>> THEN "Default" ELSE matches[1]

get_current_period_first(ps, date) == DefaultOrFirst(filter_map(ps, date))

\* A slip: the matches are joined last to first.
Reversed(items) == [i \in 1..Len(items) |-> items[Len(items) + 1 - i]]

get_current_period_reversed(ps, date) == DefaultOrJoin(Reversed(filter_map(ps, date)))

\* A slip: the empty join is returned when nothing matches.
get_current_period_empty(ps, date) == join(filter_map(ps, date), " ")

\* A slip: the scan ends at the first period whose anchor does not resolve.
RECURSIVE filter_map_until_unresolved(_, _)
filter_map_until_unresolved(ps, date) ==
    IF ps = <<>> THEN <<>>
    ELSE IF parse_flexible_date(Head(ps)[2].date, date.year) = None THEN <<>>
    ELSE period_match(Head(ps), date) \o filter_map_until_unresolved(Tail(ps), date)

get_current_period_stop(ps, date) == DefaultOrJoin(filter_map_until_unresolved(ps, date))

get_current_period(ps, date) == DefaultOrJoin(filter_map(ps, date))

(***************************************************************************)
(* The bundled configuration and its loading into a period list.           *)
(***************************************************************************)
DEFAULT_CONFIG_YAML ==
    << [name |-> "MothersDay",
        Date |-> <<"T", "h", "e", " ", "s", "e", "c", "o", "n", "d", " ", "S", "u", "n", "d", "a", "y", " ", "o", "f", " ", "M", "a", "y">>,
        DaysBefore |-> 3, DaysAfter |-> 1],
       [name |-> "FathersDay",
        Date |-> <<"T", "h", "e", " ", "t", "h", "i", "r", "d", " ", "S", "u", "n", "d", "a", "y", " ", "o", "f", " ", "J", "u", "n", "e">>,
        DaysBefore |-> 3, DaysAfter |-> 1],
       [name |-> "EasterPeriod",
        Date |-> <<"E", "a", "s", "t", "e", "r">>,
        DaysBefore |-> 5, DaysAfter |-> 2],
       [name |-> "Thanksgiving",
        Date |-> <<"T", "h", "a", "n", "k", "s", "g", "i", "v", "i", "n", "g">>,
        DaysBefore |-> 3, DaysAfter |-> 2],
       [name |-> "LaborWeek",
        Date |-> <<"L", "a", "b", "o", "r", "D", "a", "y">>,
        DaysBefore |-> 1, DaysAfter |-> 2] >>

load_yaml_file(doc) ==
    [i \in 1..Len(doc) |->
        <<doc[i].name, TimePeriod(doc[i].Date, doc[i].DaysBefore, doc[i].DaysAfter)>>]

(***************************************************************************)
(* Inputs of the model.                                                    *)
(***************************************************************************)
DatesBetween(from, to) == {DateOfDayNumber(z) : z \in DayNumber(from)..DayNumber(to)}

FEBRUARY_6 == <<"F", "e", "b", "r", "u", "a", "r", "y", " ", "6">>

INVALID_DATE == <<"I", "n", "v", "a", "l", "i", "d", " ", "d", "a", "t", "e">>

DECEMBER_31 == <<"D", "e", "c", "e", "m", "b", "e", "r", " ", "3", "1">>

JANUARY_1 == <<"J", "a", "n", "u", "a", "r", "y", " ", "1">>

EASTER == <<"E", "a", "s", "t", "e", "r">>

Names == {"Period1", "Period2", "Default"}

\* Lists of at most n entries drawn from the set S.
ListsUpTo(S, n) == UNION {[1..k -> S] : k \in 0..n}

\* Spec: lists of periods anchored on a fixed date or on an expression that
\* does not resolve, queried around the anchor.
MatchPeriods ==
    {<<name, TimePeriod(FEBRUARY_6, b, a)>> : name \in Names, b \in {0, MaxDays}, a \in {0, MaxDays}}
    \cup {<<name, TimePeriod(INVALID_DATE, 0, 0)>> : name \in Names}

MatchDates ==
    {DateOfDayNumber(DayNumber(Date(2025, 2, 6)) + k) :
        k \in {-(MaxDays + 1), -MaxDays, 0, MaxDays, MaxDays + 1}}

\* SpecWindow: one period on each kind of anchor, every offset up to MaxDays,
\* queried on every day of 2025 and on the days around both ends of the year.
WindowExprs ==
    { FEBRUARY_6, DECEMBER_31, JANUARY_1, EASTER,
      <<"T", "h", "a", "n", "k", "s", "g", "i", "v", "i", "n", "g">>,
      <<"M", "e", "m", "o", "r", "i", "a", "l", "D", "a", "y">>,
      <<"T", "h", "e", " ", "s", "e", "c", "o", "n", "d", " ", "S", "u", "n", "d", "a", "y", " ", "o", "f", " ", "M", "a", "y">> }

WindowPeriods ==
    {<<"MyPeriod", TimePeriod(expr, b, a)>> : expr \in WindowExprs, b \in 0..MaxDays, a \in 0..MaxDays}

WindowDates ==
    {DateOfDayNumber(z) : z \in (DayNumber(Date(2024, 12, 31)) - MaxDays - 1)
                                ..(DayNumber(Date(2026, 1, 1)) + MaxDays + 1)}

\* SpecTotal: offsets that leave the range of NaiveDate and a year whose
\* Easter computation gives no valid date.
TotalPeriods ==
    {<<name, TimePeriod(expr, b, a)>> :
        name \in {"Period1", "Period2"}, expr \in {FEBRUARY_6, EASTER},
        b \in {0, MaxDays, HugeDays}, a \in {0, MaxDays, HugeDays}}

TotalDates == {Date(2025, 2, 6), Date(2025, 4, 20), Date(-2, 2, 6)}

EasterYears == (1900 - EasterYearMargin)..(2099 + EasterYearMargin)

NthYearSet == 2024..(2024 + NthYears - 1)

NoDate == Date(0, 0, 0)

PureIdle == year = 0 /\ month = 0 /\ weekday = "" /\ nth = 0 /\ resolved = None

(***************************************************************************)
(* main: the query date is known; the period lists are loaded and merged;  *)
(* the matcher's result is printed.                                        *)
(***************************************************************************)
Init ==
    /\ pc = "load"
    /\ periods = <<>>
    /\ current_date \in MatchDates
    /\ output = ""
    /\ PureIdle

\* merged = user list followed by system list.
LoadConfig ==
    /\ pc = "load"
    /\ \E user \in ListsUpTo(MatchPeriods, MaxPeriods) :
         \E system \in ListsUpTo(MatchPeriods, MaxPeriods - Len(user)) :
            periods' = user \o system
    /\ pc' = "print"
    /\ UNCHANGED <<current_date, output, year, month, weekday, nth, resolved>>

\* println!("{}", get_current_period(&merged, current_date)), or the panic.
PrintPeriod ==
    /\ pc = "print"
    /\ IF get_current_period_panics(periods, current_date)
       THEN pc' = "panicked" /\ output' = output
       ELSE pc' = "done" /\ output' = get_current_period(periods, current_date)
    /\ UNCHANGED <<periods, current_date, year, month, weekday, nth, resolved>>

Next == LoadConfig \/ PrintPeriod

Spec == Init /\ [][Next]_vars

MainIdle == periods = <<>> /\ current_date = NoDate /\ output = ""

(***************************************************************************)
(* The matcher on a single period (SpecWindow), on the bundled             *)
(* configuration (SpecDefault) and on extreme inputs (SpecTotal).          *)
(***************************************************************************)
InitWindow ==
    /\ pc = "print"
    /\ \E entry \in WindowPeriods : periods = <<entry>>
    /\ current_date \in WindowDates
    /\ output = ""
    /\ PureIdle

SpecWindow == InitWindow /\ [][PrintPeriod]_vars

InitDefault ==
    /\ pc = "print"
    /\ periods = load_yaml_file(DEFAULT_CONFIG_YAML)
    /\ current_date \in DatesBetween(Date(2025, 1, 1), Date(2025, 12, 31))
    /\ output = ""
    /\ PureIdle

SpecDefault == InitDefault /\ [][PrintPeriod]_vars

InitTotal ==
    /\ pc = "print"
    /\ periods \in ListsUpTo(TotalPeriods, 1)
    /\ current_date \in TotalDates
    /\ output = ""
    /\ PureIdle

SpecTotal == InitTotal /\ [][PrintPeriod]_vars

(***************************************************************************)
(* The pure functions applied to bounded inputs.                           *)
(***************************************************************************)
InitEaster ==
    /\ pc = "easter"
    /\ year \in EasterYears
    /\ month = 0 /\ weekday = "" /\ nth = 0 /\ resolved = None
    /\ MainIdle

CalculateEaster ==
    /\ pc = "easter"
    /\ IF calculate_easter_panics(year)
       THEN pc' = "panicked" /\ resolved' = resolved
       ELSE pc' = "done" /\ resolved' = Some(calculate_easter(year))
    /\ UNCHANGED <<periods, current_date, output, year, month, weekday, nth>>

SpecEaster == InitEaster /\ [][CalculateEaster]_vars

InitNth ==
    /\ pc = "nth"
    /\ year \in NthYearSet
    /\ month \in 1..12
    /\ weekday \in {Weekdays[i] : i \in 1..7}
    /\ nth \in 0..MaxNth
    /\ resolved = None
    /\ MainIdle

NthWeekday ==
    /\ pc = "nth"
    /\ resolved' = nth_weekday_of_month(year, month, weekday, nth)
    /\ pc' = "done"
    /\ UNCHANGED <<periods, current_date, output, year, month, weekday, nth>>

SpecNth == InitNth /\ [][NthWeekday]_vars

(***************************************************************************)
(* What the properties are stated with: the window of a period computed    *)
(* on day numbers, and the names of the periods whose window contains the  *)
(* query date, in list order.                                              *)
(***************************************************************************)
Resolves(entry, date) == parse_flexible_date(entry[2].date, date.year) # None

Anchor(entry, date) == Head(parse_flexible_date(entry[2].date, date.year))

InWindow(entry, date) ==
    /\ Resolves(entry, date)
    /\ DayNumber(Anchor(entry, date)) - entry[2].days_before <= DayNumber(date)
    /\ DayNumber(date) <= DayNumber(Anchor(entry, date)) + entry[2].days_after

MatchingNames(ps, date) ==
    LET hits == SelectSeq(ps, LAMBDA entry : InWindow(entry, date))
    IN  [i \in 1..Len(hits) |-> hits[i][1]]

RECURSIVE SpaceJoined(_)
SpaceJoined(names) ==
    IF Len(names) = 1 THEN names[1]
    ELSE SpaceJoined(SubSeq(names, 1, Len(names) - 1)) \o " " \o names[Len(names)]

Remove(ps, i) == SubSeq(ps, 1, i - 1) \o SubSeq(ps, i + 1, Len(ps))

Matches == MatchingNames(periods, current_date)

(***************************************************************************)
(* Properties of the matcher on merged period lists (Spec).                *)
(***************************************************************************)
\* C1 as stated: when two or more periods contain the query date, the result
\* is exactly the name of the earliest of them in the list.
C1_FirstMatchAlone ==
    (pc = "done" /\ Len(Matches) >= 2) => output = Matches[1]

\* C1 amended: when two or more periods contain the query date, the result
\* starts with the name of the earliest of them, followed by a space and the
\* names of the later matching periods in list order.
C1_FirstMatchLeads ==
    (pc = "done" /\ Len(Matches) >= 2) =>
        output = Matches[1] \o " " \o SpaceJoined(Tail(Matches))

C1_Witness ==
    /\ pc = "done"
    /\ Matches = <<"Period1", "Period2">>
    /\ output = "Period1 Period2"

\* C2 as stated: the result is "Default" if and only if no period matches.
C2_DefaultIffNoMatch ==
    pc = "done" => (output = "Default" <=> Matches = <<>>)

\* C2 amended: the result is "Default" if and only if no period matches or
\* the only matching period is itself named "Default".
C2_DefaultIffNoMatchOrNamedDefault ==
    pc = "done" => (output = "Default" <=> (Matches = <<>> \/ Matches = <<"Default">>))

C2_Witness ==
    /\ pc = "done"
    /\ Len(periods) = 2
    /\ ~Resolves(periods[1], current_date)
    /\ Resolves(periods[2], current_date)
    /\ ~InWindow(periods[2], current_date)
    /\ periods[2][1] # "Default"
    /\ output = "Default"

\* C5: a period whose anchor expression does not resolve is skipped: the
\* result equals the matcher's result on the list with that period removed.
C5_UnresolvedSkipped ==
    pc = "done" =>
        \A i \in 1..Len(periods) :
            ~Resolves(periods[i], current_date) =>
                output = get_current_period(Remove(periods, i), current_date)

C5_Witness ==
    /\ pc = "done"
    /\ Len(periods) = 2
    /\ ~Resolves(periods[1], current_date)
    /\ InWindow(periods[2], current_date)
    /\ output = periods[2][1]

\* C7: the result is the names of all matching periods, in list order,
\* joined by single spaces; one matching period gives just its name.
C7_AllMatchesJoined ==
    pc = "done" =>
        /\ Len(Matches) = 1 => output = Matches[1]
        /\ Len(Matches) >= 1 => output = SpaceJoined(Matches)

C7_Witness ==
    /\ pc = "done"
    /\ Len(periods) = 2
    /\ Matches = <<"Period2", "Period1">>
    /\ output = "Period2 Period1"

(***************************************************************************)
(* Properties of the window of a single period (SpecWindow).               *)
(***************************************************************************)
\* C3: for a single period whose anchor resolves to A, the period's name is
\* returned exactly on the dates d with A - b <= d <= A + a: on both
\* endpoints, and not on A - b - 1 or A + a + 1.
C3_WindowInclusive ==
    (pc = "done" /\ Resolves(periods[1], current_date)) =>
        LET A == DayNumber(Anchor(periods[1], current_date))
            d == DayNumber(current_date)
            b == periods[1][2].days_before
            a == periods[1][2].days_after
        IN  /\ (A - b <= d /\ d <= A + a) => output = periods[1][1]
            /\ (d = A - b - 1 \/ d = A + a + 1) => output # periods[1][1]
            /\ (d < A - b \/ d > A + a) => output # periods[1][1]

C3_Witness ==
    /\ pc = "done"
    /\ Resolves(periods[1], current_date)
    /\ periods[1][2].days_after > 0
    /\ DayNumber(current_date) =
          DayNumber(Anchor(periods[1], current_date)) + periods[1][2].days_after
    /\ output = periods[1][1]

\* C4: the anchor is resolved in the year of the query date only: a period
\* anchored on December 31 does not match January 1 or 2, and a period
\* anchored on January 1 does not match December 30 or 31.
C4_AnchorInQueryYear ==
    pc = "done" =>
        /\ Resolves(periods[1], current_date) =>
              Anchor(periods[1], current_date).year = current_date.year
        /\ (periods[1][2].date = DECEMBER_31 /\ current_date.month = 1
                /\ current_date.day \in {1, 2}) => output # periods[1][1]
        /\ (periods[1][2].date = JANUARY_1 /\ current_date.month = 12
                /\ current_date.day \in {30, 31}) => output # periods[1][1]

C4_Witness ==
    /\ pc = "done"
    /\ periods[1][2].date = DECEMBER_31
    /\ periods[1][2].days_after = 2
    /\ current_date = Date(2026, 1, 1)
    /\ output = "Default"

(***************************************************************************)
(* Totality of the matcher (SpecTotal).                                    *)
(***************************************************************************)
\* C6: the matcher never fails, and its result is never empty: it is one
\* configured period name or "Default".
C6_MatcherTotal ==
    /\ pc # "panicked"
    /\ pc = "done" =>
          /\ output # ""
          /\ output = "Default" \/ \E i \in 1..Len(periods) : output = periods[i][1]

(***************************************************************************)
(* Properties of the pure resolvers (SpecEaster, SpecNth).                 *)
(***************************************************************************)
\* C8: for every year in 1900..2099 calculate_easter yields a valid date of
\* that year that lies between March 22 and April 25 inclusive.
C8_EasterRange ==
    year \in 1900..2099 =>
        /\ pc # "panicked"
        /\ pc = "done" =>
              /\ Len(resolved) = 1
              /\ from_ymd_opt(resolved[1].year, resolved[1].month, resolved[1].day) = resolved
              /\ resolved[1].year = year
              /\ \/ resolved[1].month = 3 /\ resolved[1].day >= 22
                 \/ resolved[1].month = 4 /\ resolved[1].day <= 25

C8_Witness ==
    /\ pc = "done"
    /\ year = 2038
    /\ resolved = Some(Date(2038, 4, 25))

\* The days of the month that fall on the weekday.
DaysOnWeekday(y, m, wd) ==
    {d \in 1..DaysInMonth(y, m) : WeekdayOf(Date(y, m, d)) = wd}

\* C9: for n in 1..5, a resolved nth weekday has the weekday, lies in the
\* month and the year, and has exactly n - 1 earlier days of the month on
\* that weekday; it is absent exactly when the month has fewer than n days
\* on that weekday.
C9_NthWeekdayCorrect ==
    (pc = "done" /\ nth \in 1..5) =>
        /\ resolved = None <=> Cardinality(DaysOnWeekday(year, month, weekday)) < nth
        /\ resolved # None =>
              /\ WeekdayOf(resolved[1]) = weekday
              /\ resolved[1].month = month
              /\ resolved[1].year = year
              /\ Cardinality({d \in DaysOnWeekday(year, month, weekday) : d < resolved[1].day})
                    = nth - 1

C9_Witness ==
    /\ pc = "done"
    /\ nth = 5
    /\ resolved # None
    /\ resolved[1].day >= 29
    /\ WeekdayOf(resolved[1]) = weekday

(***************************************************************************)
(* The scenarios on the bundled configuration (SpecDefault).               *)
(***************************************************************************)
PrintedOn(date, name) == (pc = "done" /\ current_date = date) => output = name

\* C10 as stated: MothersDay on 2025-05-11, EasterPeriod on 2025-04-20,
\* Thanksgiving on 2025-11-27, TamaraBirthday on 2025-02-06, Default on
\* 2025-01-15 and MLKReflection on 2025-01-20.
C10_ScenariosAsStated ==
    /\ PrintedOn(Date(2025, 5, 11), "MothersDay")
    /\ PrintedOn(Date(2025, 4, 20), "EasterPeriod")
    /\ PrintedOn(Date(2025, 11, 27), "Thanksgiving")
    /\ PrintedOn(Date(2025, 2, 6), "TamaraBirthday")
    /\ PrintedOn(Date(2025, 1, 15), "Default")
    /\ PrintedOn(Date(2025, 1, 20), "MLKReflection")

\* C10 amended: MothersDay on 2025-05-11, EasterPeriod on 2025-04-20,
\* Thanksgiving on 2025-11-27, and Default on 2025-02-06, 2025-01-15 and
\* 2025-01-20: the bundled configuration has no TamaraBirthday and no
\* MLKReflection period.
C10_ScenariosOfBundledConfig ==
    /\ PrintedOn(Date(2025, 5, 11), "MothersDay")
    /\ PrintedOn(Date(2025, 4, 20), "EasterPeriod")
    /\ PrintedOn(Date(2025, 11, 27), "Thanksgiving")
    /\ PrintedOn(Date(2025, 2, 6), "Default")
    /\ PrintedOn(Date(2025, 1, 15), "Default")
    /\ PrintedOn(Date(2025, 1, 20), "Default")
    /\ \A i \in 1..Len(periods) : periods[i][1] \notin {"TamaraBirthday", "MLKReflection"}

C10_Witness ==
    /\ pc = "done"
    /\ current_date = Date(2025, 2, 6)
    /\ output = "Default"

=============================================================================
